---- MODULE Spec2Model ----
(***************************************************************************)
(* A model of the swap-api data plane: the bounded LRU price index         *)
(* (TradeMemoryManager), the ingestion listener and trade validator        *)
(* (UnifiedTradeProcessor), the aggregator fallback (getTradeForMint /     *)
(* fetchTradeFromJupiter), the swap request handler (createApp) and the    *)
(* reconnecting transaction source (TransactionStreamer).                  *)
(***************************************************************************)
EXTENDS Integers, Sequences, FiniteSets, TLC

VARIABLES
    trades,            \* TradeMemoryManager.trades: mint -> StoredTrade
    accessOrder,       \* TradeMemoryManager.accessOrder: mints, least recently used first
    evicted,           \* the entries the last cleanup loop shifted out, in order
    now,               \* Date.now()
    maxMemoryBytes,    \* config.maxMemoryMB * 1024 * 1024
    cleanupThreshold,  \* config.cleanupThreshold, in percent
    puts,              \* mint -> the trade of the latest addTrade for it, and what
                       \* became of that entry since ("stored", "evicted", "removed")
    got,               \* what the getTrade of the last step returned, if it was one
    microtasks,        \* pending continuations of the raw-transaction listener, in FIFO order
    emitting,          \* the stream is still emitting 'data' events in the current turn
    nextSlot,          \* slot of the next record the stream delivers
    lastValid,         \* mint -> slot of the last delivered record with a valid trade for it
    req,               \* the HTTP request in progress: its handler's position and locals
    resp,              \* the response sent to the last request
    streamer,          \* the TransactionStreamer: its fields, its pending reconnect
                       \* timers and the position of the connection attempt in flight
    inbound,           \* the 'data' events handled so far, and what became of each
    faults,            \* failures the network has produced so far
    calls,             \* connect() and disconnect() calls made from outside so far
    owed               \* a failure hit the running streamer and no attempt started since

cacheVars == <<trades, accessOrder, evicted, now, maxMemoryBytes, cleanupThreshold,
              puts, got>>

ingestVars == <<microtasks, emitting, nextSlot, lastValid>>

apiVars == <<req, resp>>

streamVars == <<streamer, inbound, faults, calls, owed>>

vars == <<trades, accessOrder, evicted, now, maxMemoryBytes, cleanupThreshold, puts, got,
          microtasks, emitting, nextSlot, lastValid, req, resp,
          streamer, inbound, faults, calls, owed>>

----------------------------------------------------------------------------
(* Bounds of the model *)

MaxTime == 2
MaxRecords == 2
MaxFaults == 2
MaxCalls == 2
MaxData == 2

----------------------------------------------------------------------------
(* Values *)

SOL_MINT == "So11111111111111111111111111111111111111112"

Mints == {"M1", "M2", "M3"}

NoValue == "undefined"

\* A JavaScript number that is the quotient of two integers: d = 0 stands for
\* Infinity (n > 0) and NaN (n = 0).
Num(n, d) == [n |-> n, d |-> d]

IsPositive(x) == x.n > 0

PUMP_FUN_PROGRAM_ID == "6EF8rrecthR5Dkzon8Nwu78hRvfCKubJ14M5uBEwF6P"
PUMP_SWAP_PROGRAM_ID == "pAMMBay6oceH9fJKBRHGP5D4bD4sWpmSwMn52FMfXEA"
RAYDIUM_CLMM_PROGRAM_ID == "CAMMCzo5YL8w4VFF8KVHrK22GGUsp5VTaW7grrKgrWqK"
PHOENIX_PROGRAM_ID == "PhoeNiXZ8ByJGLkxNfZRnkUfjvmuYqLR89jjFHGqdXY"

\* TransactionBuilderRegistry.supportedMarkets (three of its twelve entries)
supportedMarkets ==
    (PUMP_FUN_PROGRAM_ID :> "PUMP_FUN") @@
    (PUMP_SWAP_PROGRAM_ID :> "PUMP_SWAP") @@
    (RAYDIUM_CLMM_PROGRAM_ID :> "RAYDIUM_CLMM")

\* keys every object literal inherits (two of them)
ObjectPrototypeKeys == {"constructor", "toString"}

\* programId in this.supportedMarkets
hasBuilder(programId) == programId \in DOMAIN supportedMarkets \cup ObjectPrototypeKeys

getSupportedProgramIds == DOMAIN supportedMarkets

\* this.supportedMarkets[programId] || null
getMarketForProgramId(programId) ==
    IF programId \in DOMAIN supportedMarkets THEN supportedMarkets[programId]
    ELSE IF programId \in ObjectPrototypeKeys THEN "[Function]"
    ELSE NoValue

----------------------------------------------------------------------------
(* TradeMemoryManager *)

estimatedBytesPerTrade == 400
mapOverheadPerEntry == 24
accessOrderOverheadPerEntry == 50
cleanupTargetPercent == 70

Trade(mint, pool, avgPrice, programId, slot) ==
    [mint |-> mint, pool |-> pool, avgPrice |-> avgPrice, programId |-> programId, slot |-> slot]

StoredTrade(trade, timestamp, accessTime) ==
    [mint |-> trade.mint, pool |-> trade.pool, avgPrice |-> trade.avgPrice,
     programId |-> trade.programId, slot |-> trade.slot,
     timestamp |-> timestamp, accessTime |-> accessTime]

TradeOf(stored) ==
    Trade(stored.mint, stored.pool, stored.avgPrice, stored.programId, stored.slot)

getCurrentMemoryUsage(t, order) ==
    Cardinality(DOMAIN t) * estimatedBytesPerTrade
        + Cardinality(DOMAIN t) * mapOverheadPerEntry
        + Len(order) * accessOrderOverheadPerEntry

\* usage > maxMemoryBytes * (percent / 100)
ExceedsPercent(usage, maxBytes, percent) == usage * 100 > maxBytes * percent

shouldCleanup(t, order, maxBytes, threshold) ==
    ExceedsPercent(getCurrentMemoryUsage(t, order), maxBytes, threshold)

\* a removal that never finds the key
removeFromAccessOrderNotFound(order, mint) == order

removeFromAccessOrder(order, mint) ==
    IF \E i \in 1..Len(order) : order[i] = mint
    THEN LET idx == CHOOSE i \in 1..Len(order) :
                        order[i] = mint /\ \A j \in 1..(i - 1) : order[j] # mint
         IN  SubSeq(order, 1, idx - 1) \o SubSeq(order, idx + 1, Len(order))
    ELSE order

EmptyMap == [k \in {} |-> NoValue]

\* a delete that leaves the entry in the map
MapDeleteKept(t, mint) == t

MapDelete(t, mint) == [k \in DOMAIN t \ {mint} |-> t[k]]

MapSet(t, mint, value) == [k \in DOMAIN t \cup {mint} |-> IF k = mint THEN value ELSE t[k]]

\* The loop of performCleanup and forceCleanup: shift the head of accessOrder and
\* delete it from the map while the usage exceeds the target share of the ceiling.
RECURSIVE cleanupLoop(_, _, _, _, _)
cleanupLoop(t, order, out, maxBytes, targetPercent) ==
    IF ExceedsPercent(getCurrentMemoryUsage(t, order), maxBytes, targetPercent) /\ Len(order) > 0
    THEN LET oldestMint == Head(order)
         IN  IF oldestMint \in DOMAIN t
             THEN cleanupLoop(MapDelete(t, oldestMint), Tail(order),
                              Append(out, t[oldestMint]), maxBytes, targetPercent)
             ELSE cleanupLoop(t, Tail(order), out, maxBytes, targetPercent)
    ELSE [trades |-> t, accessOrder |-> order, evicted |-> out]

\* a cleanup that empties the cache whatever the ceiling
performCleanupToEmpty(t, order, maxBytes) ==
    cleanupLoop(t, order, <<>>, maxBytes, 0)

performCleanup(t, order, maxBytes) ==
    cleanupLoop(t, order, <<>>, maxBytes, cleanupTargetPercent)

\* the mints of the entries a cleanup loop shifted out
MintsOf(out) == {out[i].mint : i \in 1..Len(out)}

\* the record of an addTrade call: the trade is now the latest put for its mint
notePut(p, trade) == MapSet(p, trade.mint, [trade |-> trade, fate |-> "stored"])

\* the record of entries leaving the map: by the cleanup loop ("evicted") or by
\* removeTrade and clearAll ("removed")
noteGone(p, mints, fate) ==
    [k \in DOMAIN p |-> IF k \in mints /\ p[k].fate = "stored"
                        THEN [p[k] EXCEPT !.fate = fate] ELSE p[k]]

\* no getTrade in the last step
NoReturn == [mint |-> NoValue, value |-> <<>>]

\* the value getTrade(mint) returns on the map t: <<>> for undefined
getTradeReturn(t, mint) ==
    [mint |-> mint, value |-> IF mint \in DOMAIN t THEN <<TradeOf(t[mint])>> ELSE <<>>]

\* a getTrade that leaves the key where it is in the access order
touchOrderStale(order, mint) == order

\* getTrade's reordering of a present key
touchOrder(order, mint) == Append(removeFromAccessOrder(order, mint), mint)

\* addTrade as a function of the cache it is applied to
addTradeResult(t, order, trade, time, maxBytes, threshold) ==
    LET order1 == IF trade.mint \in DOMAIN t THEN removeFromAccessOrder(order, trade.mint)
                  ELSE order
        t2     == MapSet(t, trade.mint, StoredTrade(trade, time, time))
        order2 == Append(order1, trade.mint)
    IN  IF shouldCleanup(t2, order2, maxBytes, threshold)
        THEN performCleanup(t2, order2, maxBytes)
        ELSE [trades |-> t2, accessOrder |-> order2, evicted |-> <<>>]

addTrade(trade) ==
    LET r == addTradeResult(trades, accessOrder, trade, now, maxMemoryBytes, cleanupThreshold)
    IN  /\ trades' = r.trades
        /\ accessOrder' = r.accessOrder
        /\ evicted' = r.evicted
        /\ puts' = noteGone(notePut(puts, trade), MintsOf(r.evicted), "evicted")
        /\ got' = NoReturn
        /\ UNCHANGED <<now, maxMemoryBytes, cleanupThreshold>>

\* a getTrade that writes the entry anew: its insertion timestamp is reset as well
getTradeRewriting(mint) ==
    /\ IF mint \in DOMAIN trades
       THEN /\ trades' = [trades EXCEPT ![mint].accessTime = now, ![mint].timestamp = now]
            /\ accessOrder' = touchOrder(accessOrder, mint)
       ELSE UNCHANGED <<trades, accessOrder>>
    /\ evicted' = <<>>
    /\ got' = getTradeReturn(trades, mint)
    /\ UNCHANGED <<now, maxMemoryBytes, cleanupThreshold, puts>>

\* getTrade(mint) on the cache; the value returned is trades'[mint] or NoValue
getTrade(mint) ==
    /\ IF mint \in DOMAIN trades
       THEN /\ trades' = [trades EXCEPT ![mint].accessTime = now]
            /\ accessOrder' = touchOrder(accessOrder, mint)
       ELSE UNCHANGED <<trades, accessOrder>>
    /\ evicted' = <<>>
    /\ got' = getTradeReturn(trades, mint)
    /\ UNCHANGED <<now, maxMemoryBytes, cleanupThreshold, puts>>

removeTrade(mint) ==
    /\ IF mint \in DOMAIN trades
       THEN /\ trades' = MapDelete(trades, mint)
            /\ accessOrder' = removeFromAccessOrder(accessOrder, mint)
       ELSE UNCHANGED <<trades, accessOrder>>
    /\ evicted' = <<>>
    /\ puts' = noteGone(puts, {mint}, "removed")
    /\ got' = NoReturn
    /\ UNCHANGED <<now, maxMemoryBytes, cleanupThreshold>>

forceCleanup(targetPercentage) ==
    LET r == cleanupLoop(trades, accessOrder, <<>>, maxMemoryBytes, targetPercentage)
    IN  /\ trades' = r.trades
        /\ accessOrder' = r.accessOrder
        /\ evicted' = r.evicted
        /\ puts' = noteGone(puts, MintsOf(r.evicted), "evicted")
        /\ got' = NoReturn
        /\ UNCHANGED <<now, maxMemoryBytes, cleanupThreshold>>

clearAll ==
    /\ trades' = EmptyMap
    /\ accessOrder' = <<>>
    /\ evicted' = <<>>
    /\ puts' = noteGone(puts, DOMAIN puts, "removed")
    /\ got' = NoReturn
    /\ UNCHANGED <<now, maxMemoryBytes, cleanupThreshold>>

\* The wall clock advances between operations.
Tick ==
    /\ now < MaxTime
    /\ now' = now + 1
    /\ UNCHANGED <<trades, accessOrder, evicted, maxMemoryBytes, cleanupThreshold,
                   puts, got>>

----------------------------------------------------------------------------
(* UnifiedTradeProcessor: the parser's trades of one record, validated one by one *)

RECURSIVE GCD(_, _)
GCD(a, b) == IF b = 0 THEN a ELSE GCD(b, a % b)

\* a / b for non-negative integers, as a number
Quotient(a, b) ==
    IF b = 0 THEN Num(IF a > 0 THEN 1 ELSE 0, 0)
    ELSE IF a = 0 THEN Num(0, 1)
    ELSE Num(a \div GCD(a, b), b \div GCD(a, b))

Zero == Num(0, 1)

\* one trade of the parser's result (parseResult.trades)
ParsedTrade(type, inputMint, outputMint, inputAmountRaw, outputAmountRaw, programId, pool, user, idx) ==
    [type |-> type, inputMint |-> inputMint, outputMint |-> outputMint,
     inputAmountRaw |-> inputAmountRaw, outputAmountRaw |-> outputAmountRaw,
     programId |-> programId, pool |-> pool, user |-> user, idx |-> idx]

\* one meme event of the parser's result (parseResult.memeEvents)
MemeEvent(idx, user, baseMint, quoteMint, bondingCurve) ==
    [idx |-> idx, user |-> user, baseMint |-> baseMint, quoteMint |-> quoteMint,
     bondingCurve |-> bondingCurve]

\* Array.find: the index of the first element that satisfies Test, 0 when none does
Find(seq, Test(_)) ==
    IF \E i \in 1..Len(seq) : Test(seq[i])
    THEN CHOOSE i \in 1..Len(seq) : Test(seq[i]) /\ \A j \in 1..(i - 1) : ~Test(seq[j])
    ELSE 0

\* a || b on strings: the empty string and undefined are falsy
OrElse(a, b) == IF a # NoValue /\ a # "" THEN a ELSE b

Truthy(a) == a # NoValue /\ a # ""

calculateAvgPriceFromBalanceChanges(trade, rawTransaction) ==
    LET targetMint == OrElse(trade.outputMint, trade.inputMint)
    IN  IF ~Truthy(targetMint) \/ targetMint = SOL_MINT THEN Zero
        ELSE IF rawTransaction.solChange > 0 /\ rawTransaction.tokenChange > 0
             THEN Quotient(rawTransaction.solChange, rawTransaction.tokenChange)
             ELSE Zero

extractPoolId(trade, memeEvents) ==
    IF Truthy(trade.pool) THEN trade.pool
    ELSE LET bySignature(e) == e.idx = trade.idx /\ Truthy(e.bondingCurve)
             byTokens(e) == /\ e.user = trade.user
                            /\ \/ (e.baseMint = trade.outputMint /\ e.quoteMint = trade.inputMint)
                               \/ (e.baseMint = trade.inputMint /\ e.quoteMint = trade.outputMint)
                            /\ Truthy(e.bondingCurve)
             byUser(e) == e.user = trade.user /\ Truthy(e.bondingCurve)
             m1 == Find(memeEvents, bySignature)
             m2 == IF m1 # 0 THEN m1 ELSE Find(memeEvents, byTokens)
             m3 == IF m2 # 0 THEN m2 ELSE Find(memeEvents, byUser)
         IN  IF m3 # 0 THEN memeEvents[m3].bondingCurve ELSE NoValue

\* a validateTrade without its whitelist check
validateTradeAnyProgram(trade) ==
    IF ~Truthy(trade.mint) THEN [isValid |-> FALSE, reason |-> "Missing mint"]
    ELSE IF ~Truthy(trade.pool) THEN [isValid |-> FALSE, reason |-> "Missing pool"]
    ELSE IF trade.avgPrice.n <= 0 /\ trade.avgPrice.d # 0
    THEN [isValid |-> FALSE, reason |-> "Invalid avgPrice"]
    ELSE [isValid |-> TRUE, reason |-> NoValue]

\* validateTrade: { isValid, reason }, the checks in the order of the source;
\* NaN <= 0 is false
validateTrade(trade) ==
    IF ~Truthy(trade.mint) THEN [isValid |-> FALSE, reason |-> "Missing mint"]
    ELSE IF ~Truthy(trade.pool) THEN [isValid |-> FALSE, reason |-> "Missing pool"]
    ELSE IF trade.avgPrice.n <= 0 /\ trade.avgPrice.d # 0
    THEN [isValid |-> FALSE, reason |-> "Invalid avgPrice"]
    ELSE IF ~Truthy(trade.programId) THEN [isValid |-> FALSE, reason |-> "Missing programId"]
    ELSE IF ~Truthy(trade.slot) THEN [isValid |-> FALSE, reason |-> "Missing slot"]
    ELSE IF trade.mint = "unknown" THEN [isValid |-> FALSE, reason |-> "Mint is unknown"]
    ELSE IF trade.pool = "unknown" THEN [isValid |-> FALSE, reason |-> "Pool is unknown"]
    ELSE IF trade.programId = "unknown"
    THEN [isValid |-> FALSE, reason |-> "ProgramId is unknown"]
    ELSE IF trade.programId \notin getSupportedProgramIds
    THEN [isValid |-> FALSE, reason |-> "ProgramId not whitelisted"]
    ELSE [isValid |-> TRUE, reason |-> NoValue]

\* the trade processIndividualTrade builds from a candidate before it validates it
processedTradeOf(trade, allTradeData, tradesWithAmounts, memeEvents, rawTransaction) ==
    LET shares(data) == \/ data.inputMint = trade.inputMint
                        \/ data.outputMint = trade.outputMint
                        \/ data.inputMint = trade.outputMint
                        \/ data.outputMint = trade.inputMint
        repair == (trade.inputAmountRaw = 0 \/ trade.outputAmountRaw = 0)
                      /\ Len(tradesWithAmounts) > 0
        found == Find(tradesWithAmounts, shares)
        fallbackTrade == IF found # 0 THEN tradesWithAmounts[found] ELSE tradesWithAmounts[1]
        inputAmountRaw == IF repair /\ trade.inputAmountRaw = 0
                          THEN fallbackTrade.inputAmountRaw ELSE trade.inputAmountRaw
        outputAmountRaw == IF repair /\ trade.outputAmountRaw = 0
                           THEN fallbackTrade.outputAmountRaw ELSE trade.outputAmountRaw
        price1 == IF inputAmountRaw > 0 /\ outputAmountRaw > 0
                  THEN IF trade.type = "BUY" THEN Quotient(inputAmountRaw, outputAmountRaw)
                       ELSE IF trade.type = "SELL" THEN Quotient(outputAmountRaw, inputAmountRaw)
                       ELSE Zero
                  ELSE Zero
        avgPrice == IF price1 = Zero
                    THEN calculateAvgPriceFromBalanceChanges(trade, rawTransaction)
                    ELSE price1
        poolId == extractPoolId(trade, memeEvents)
        hasMint(data) == Truthy(data.inputMint) \/ Truthy(data.outputMint)
        ownMint == OrElse(trade.outputMint, trade.inputMint)
        tradeWithMint == Find(allTradeData, hasMint)
        mint == IF ~Truthy(ownMint) /\ tradeWithMint # 0
                THEN OrElse(allTradeData[tradeWithMint].outputMint,
                            allTradeData[tradeWithMint].inputMint)
                ELSE ownMint
    IN  Trade(mint, poolId, avgPrice, trade.programId, ToString(rawTransaction.slot))

\* processIndividualTrade: [isValid, trade, reason]
processIndividualTrade(trade, allTradeData, tradesWithAmounts, memeEvents, rawTransaction) ==
    LET verdict(processedTrade, validation) ==
            IF ~Truthy(processedTrade.pool) \/ processedTrade.pool = "unknown"
            THEN [isValid |-> FALSE, trade |-> NoValue,
                  reason |-> "Pool ID is null or unknown"]
            ELSE [isValid |-> validation.isValid,
                  trade |-> IF validation.isValid THEN processedTrade ELSE NoValue,
                  reason |-> validation.reason]
        validated(processedTrade) == verdict(processedTrade, validateTrade(processedTrade))
    IN  validated(processedTradeOf(trade, allTradeData, tradesWithAmounts,
                                   memeEvents, rawTransaction))

\* what processTransaction returns when the parser or anything after it throws
EmptyResult == [validTrades |-> <<>>, invalidTrades |-> <<>>, totalTrades |-> 0, filtered |-> 0]

\* processTransaction after the parser returned: [validTrades, invalidTrades,
\* totalTrades, filtered], filtered the number of trades it awaits
processParsed(rawTransaction) ==
    LET notSolSol(t) == ~(t.inputMint = SOL_MINT /\ t.outputMint = SOL_MINT)
        withAmounts(t) == t.inputAmountRaw > 0 /\ t.outputAmountRaw > 0
        valid(r) == r.isValid
        invalid(r) == ~r.isValid
        \* one turn of the loop: what processIndividualTrade returned for a trade,
        \* with the trade itself when it was rejected
        turn(trade, result) ==
            [isValid |-> result.isValid,
             trade |-> IF result.isValid THEN result.trade ELSE trade,
             reason |-> result.reason]
        \* validTrades.push(result.trade), invalidTrades.push({ trade, reason })
        pushed(validResults, invalidResults, filteredTrades) ==
            [validTrades |-> [i \in 1..Len(validResults) |-> validResults[i].trade],
             invalidTrades |-> [i \in 1..Len(invalidResults) |->
                                   [trade |-> invalidResults[i].trade,
                                    reason |-> invalidResults[i].reason]],
             totalTrades |-> Len(rawTransaction.trades),
             filtered |-> Len(filteredTrades)]
        sorted(results, filteredTrades) ==
            pushed(SelectSeq(results, valid), SelectSeq(results, invalid), filteredTrades)
        loop(filteredTrades, tradesWithAmounts) ==
            sorted([i \in 1..Len(filteredTrades) |->
                       turn(filteredTrades[i],
                            processIndividualTrade(filteredTrades[i], filteredTrades,
                                tradesWithAmounts, rawTransaction.memeEvents,
                                rawTransaction))],
                   filteredTrades)
        filtered(filteredTrades) == loop(filteredTrades, SelectSeq(filteredTrades, withAmounts))
    IN  filtered(SelectSeq(rawTransaction.trades, notSolSol))

\* a processTransaction that goes on with the record although the parser threw
processTransactionParseErrorIgnored(rawTransaction) == processParsed(rawTransaction)

\* processTransaction: the parser's exception is caught and an empty result returned
processTransaction(rawTransaction) ==
    IF rawTransaction.parserThrows
    THEN EmptyResult
    ELSE processParsed(rawTransaction)

----------------------------------------------------------------------------
(* The raw-transaction listener of index.ts, run by the event loop *)

\* a record as the stream hands it to the listener, with what the parser makes of it
RawTransaction(slot, parsedTrades, memeEvents, solChange, tokenChange, parserThrows) ==
    [slot |-> slot, trades |-> parsedTrades, memeEvents |-> memeEvents,
     solChange |-> solChange, tokenChange |-> tokenChange, parserThrows |-> parserThrows]

\* addTrade for each valid trade in turn (validTrades.forEach)
RECURSIVE storeAll(_, _, _, _, _, _)
storeAll(t, order, out, validTrades, time, cfg) ==
    IF validTrades = <<>> THEN [trades |-> t, accessOrder |-> order, evicted |-> out]
    ELSE LET r == addTradeResult(t, order, Head(validTrades), time, cfg[1], cfg[2])
         IN  storeAll(r.trades, r.accessOrder, r.evicted, Tail(validTrades), time, cfg)

\* the record of the addTrade calls of storeAll
RECURSIVE storeAllPuts(_, _, _, _, _, _)
storeAllPuts(p, t, order, validTrades, time, cfg) ==
    IF validTrades = <<>> THEN p
    ELSE LET r == addTradeResult(t, order, Head(validTrades), time, cfg[1], cfg[2])
         IN  storeAllPuts(noteGone(notePut(p, Head(validTrades)), MintsOf(r.evicted), "evicted"),
                          r.trades, r.accessOrder, Tail(validTrades), time, cfg)

\* The stream emits a 'data' event: handleGrpcMessage calls the listener, which runs
\* up to its first await. Several events may be emitted in one turn of the event
\* loop; a new turn starts only when no continuation is pending.
Deliver(parsedTrades, memeEvents, solChange, tokenChange, parserThrows) ==
    LET mintsOf(validTrades) == {validTrades[i].mint : i \in 1..Len(validTrades)}
        \* the listener is left waiting with the result of processTransaction
        listener(result) ==
            /\ microtasks' = Append(microtasks,
                                    [slot |-> nextSlot, awaits |-> result.filtered,
                                     validTrades |-> result.validTrades,
                                     invalidTrades |-> result.invalidTrades,
                                     threw |-> parserThrows])
            /\ lastValid' = [m \in DOMAIN lastValid |->
                                IF m \in mintsOf(result.validTrades) THEN nextSlot
                                ELSE lastValid[m]]
    IN  /\ nextSlot <= MaxRecords
        /\ microtasks = <<>> \/ emitting
        /\ listener(processTransaction(RawTransaction(nextSlot, parsedTrades, memeEvents,
                                                      solChange, tokenChange, parserThrows)))
        /\ emitting' = TRUE
        /\ nextSlot' = nextSlot + 1
        /\ UNCHANGED <<cacheVars, apiVars, streamVars>>

\* The event loop runs the oldest pending continuation: either the next await of
\* processTransaction's loop, or the rest of the listener, which stores the trades.
RunMicrotask ==
    /\ microtasks # <<>>
    /\ emitting' = FALSE
    /\ LET task == Head(microtasks)
       IN  IF task.awaits > 0
           THEN /\ microtasks' = Append(Tail(microtasks), [task EXCEPT !.awaits = @ - 1])
                /\ UNCHANGED cacheVars
           ELSE /\ microtasks' = Tail(microtasks)
                /\ IF task.validTrades = <<>>
                   THEN UNCHANGED cacheVars
                   ELSE LET r == storeAll(trades, accessOrder, <<>>, task.validTrades, now,
                                          <<maxMemoryBytes, cleanupThreshold>>)
                        IN  /\ trades' = r.trades
                            /\ accessOrder' = r.accessOrder
                            /\ evicted' = r.evicted
                            /\ puts' = storeAllPuts(puts, trades, accessOrder,
                                                    task.validTrades, now,
                                                    <<maxMemoryBytes, cleanupThreshold>>)
                            /\ got' = NoReturn
                            /\ UNCHANGED <<now, maxMemoryBytes, cleanupThreshold>>
    /\ UNCHANGED <<nextSlot, lastValid, apiVars, streamVars>>

InitIngest ==
    /\ microtasks = <<>>
    /\ emitting = FALSE
    /\ nextSlot = 1
    /\ lastValid = [m \in Mints \cup {SOL_MINT} |-> 0]

----------------------------------------------------------------------------
(* getTradeForMint and fetchTradeFromJupiter (index.ts) *)

LamportsPerSol == 1000000000

Absent == -1

NoTrade == Trade(NoValue, NoValue, Zero, NoValue, NoValue)

\* fetchTradeFromJupiter's table from route labels to program ids (four of its entries)
labelToProgramId ==
    ("Pump.fun" :> PUMP_FUN_PROGRAM_ID) @@
    ("Pump.fun Amm" :> PUMP_SWAP_PROGRAM_ID) @@
    ("Raydium CLMM" :> RAYDIUM_CLMM_PROGRAM_ID) @@
    ("Phoenix" :> PHOENIX_PROGRAM_ID)

\* the aggregator's answer to the quote request: ok is response.ok, hops the length
\* of routePlan (Absent: no routePlan), label and ammKey those of routePlan[0].swapInfo
JupiterResponse(ok, inAmount, outAmount, hops, label, ammKey) ==
    [ok |-> ok, inAmount |-> inAmount, outAmount |-> outAmount, hops |-> hops,
     label |-> label, ammKey |-> ammKey]

\* fetchTradeFromJupiter: the trade built from the response, NoTrade for undefined
fetchTradeFromJupiter(mint, data) ==
    IF ~data.ok THEN NoTrade
    ELSE IF data.inAmount = Absent \/ data.outAmount = Absent
            \/ data.hops = Absent \/ data.hops = 0 THEN NoTrade
    ELSE IF data.hops > 1 THEN NoTrade
    ELSE LET avgPrice == Quotient(data.inAmount, data.outAmount * LamportsPerSol)
             mappedProgramId == IF data.label \in DOMAIN labelToProgramId
                                THEN labelToProgramId[data.label] ELSE NoValue
             programId == IF Truthy(data.label) /\ Truthy(mappedProgramId)
                             /\ hasBuilder(mappedProgramId)
                          THEN mappedProgramId ELSE "unknown"
         IN  Trade(mint, data.ammKey, avgPrice, programId, "ctx")

\* a value of the JSON body: undefined, a number, a numeric string or another string
JsUndefined == [t |-> "undefined", v |-> 0]
JsNumber(v) == [t |-> "number", v |-> v]
JsString(v) == [t |-> "string", v |-> v]
JsText == [t |-> "text", v |-> 0]

JsTruthy(x) == (x.t = "number" /\ x.v # 0) \/ x.t \in {"string", "text"}

\* parseInt and parseFloat on the whole numbers of the model
IsNaN(x) == x.t \notin {"number", "string"}
parseNumber(x) == x.v

\* the quote override of a swap body (present = FALSE: the body has none)
QuoteOverride(present, mint, pool, avgPrice, programId, slot) ==
    [present |-> present, mint |-> mint, pool |-> pool, avgPrice |-> avgPrice,
     programId |-> programId, slot |-> slot]

NoQuote == QuoteOverride(FALSE, NoValue, NoValue, Zero, NoValue, NoValue)

\* the body of POST /api/swap/:mint; signerLength is Absent for a missing signer
SwapBody(signerLength, encoding, type, amountIn, amountOut, slippage, quote) ==
    [signerLength |-> signerLength, encoding |-> encoding, type |-> type,
     amountIn |-> amountIn, amountOut |-> amountOut, slippage |-> slippage, quote |-> quote]

EmptyBody == SwapBody(Absent, NoValue, NoValue, JsUndefined, JsUndefined, JsUndefined, NoQuote)

\* wrote is not a field of the request: it records that the handler has changed
\* the map or the access order of the index since the request came in
IdleRequest ==
    [pc |-> "idle", kind |-> NoValue, mint |-> NoValue, stored |-> NoTrade,
     trade |-> NoTrade, slippageBps |-> 0, body |-> EmptyBody, wrote |-> FALSE]

Response(status, trade, tx, supportedProtocols) ==
    [status |-> status, trade |-> trade, tx |-> tx, supportedProtocols |-> supportedProtocols]

NoResponse == Response(0, NoTrade, "", {})

InitApi ==
    /\ req = IdleRequest
    /\ resp = NoResponse

\* GET /api/quote/:mint once getTradeForMint has returned
quoteReply(trade) ==
    IF trade = NoTrade THEN Response(404, NoTrade, "", {})
    ELSE Response(200, trade, "", {})

\* getTradeForMint up to its first await: the read of the index and the choice
\* between the real-time price and the aggregator
lookupStart(r) ==
    LET stored == IF r.mint \in DOMAIN trades THEN TradeOf(trades[r.mint]) ELSE NoTrade
        market == getMarketForProgramId(stored.programId)
    IN  [r EXCEPT !.stored = stored,
                  !.pc = IF stored # NoTrade /\ market # NoValue THEN "price" ELSE "jupiter"]

QuoteRequest(mint) ==
    /\ req.pc = "idle"
    /\ microtasks = <<>>
    /\ trades' = (IF mint \in DOMAIN trades
                  THEN [trades EXCEPT ![mint].accessTime = now] ELSE trades)
    /\ accessOrder' = (IF mint \in DOMAIN trades THEN touchOrder(accessOrder, mint)
                       ELSE accessOrder)
    /\ evicted' = <<>>
    /\ req' = lookupStart([IdleRequest EXCEPT !.kind = "quote", !.mint = mint])
    /\ resp' = NoResponse
    /\ got' = getTradeReturn(trades, mint)
    /\ UNCHANGED <<now, maxMemoryBytes, cleanupThreshold, puts, ingestVars, streamVars>>

MinSignerLength == 32
DefaultSlippageBps == 100
MinSlippageBps == 1000
MaxSlippageBps == 10000

\* the request once it is answered: its fields stay readable until the next request
Answered(r) == [r EXCEPT !.pc = "idle"]

Reject(r, status) == [req |-> Answered(r), resp |-> Response(status, NoTrade, "", {})]

\* POST /api/swap/:mint from the slippage check to the call of the builder, with
\* the trade the request uses: [req, resp]
swapAfterLookup(r, trade) ==
    LET body == r.body
        badSlippage == JsTruthy(body.slippage)
                           /\ (IsNaN(body.slippage)
                               \/ parseNumber(body.slippage) < MinSlippageBps
                               \/ parseNumber(body.slippage) > MaxSlippageBps)
        slippageBps == IF JsTruthy(body.slippage) THEN parseNumber(body.slippage)
                       ELSE DefaultSlippageBps
        amountSource == IF JsTruthy(body.amountIn) THEN body.amountIn ELSE body.amountOut
        badAmount == IsNaN(amountSource) \/ parseNumber(amountSource) <= 0
    IN  IF trade = NoTrade THEN Reject(r, 404)
        ELSE IF badSlippage THEN Reject(r, 400)
        ELSE IF badAmount THEN Reject(r, 400)
        ELSE IF ~hasBuilder(trade.programId)
             THEN [req |-> Answered([r EXCEPT !.trade = trade]),
                   resp |-> Response(400, NoTrade, "", getSupportedProgramIds)]
        ELSE [req |-> [r EXCEPT !.pc = "build", !.trade = trade, !.slippageBps = slippageBps],
              resp |-> NoResponse]

\* the early checks without the comparison of the quote's mint with the path's
swapRejectedEarlyAnyMint(mint, body) ==
    \/ body.signerLength = Absent \/ body.signerLength = 0
    \/ body.signerLength < MinSignerLength
    \/ (Truthy(body.encoding) /\ body.encoding \notin {"base64", "base58"})
    \/ ~Truthy(body.type) \/ body.type \notin {"buy", "sell"}
    \/ (~JsTruthy(body.amountIn) /\ ~JsTruthy(body.amountOut))
    \/ /\ body.quote.present
       /\ \/ ~Truthy(body.quote.mint) \/ ~Truthy(body.quote.pool)
          \/ body.quote.avgPrice.n = 0
          \/ ~Truthy(body.quote.programId) \/ ~Truthy(body.quote.slot)

\* the checks of the handler before it needs a trade: TRUE iff one of them answers 400
swapRejectedEarly(mint, body) ==
    \/ body.signerLength = Absent \/ body.signerLength = 0
    \/ body.signerLength < MinSignerLength
    \/ (Truthy(body.encoding) /\ body.encoding \notin {"base64", "base58"})
    \/ ~Truthy(body.type) \/ body.type \notin {"buy", "sell"}
    \/ (~JsTruthy(body.amountIn) /\ ~JsTruthy(body.amountOut))
    \/ /\ body.quote.present
       /\ \/ ~Truthy(body.quote.mint) \/ ~Truthy(body.quote.pool)
          \/ body.quote.avgPrice.n = 0
          \/ ~Truthy(body.quote.programId) \/ ~Truthy(body.quote.slot)
          \/ body.quote.mint # mint

\* what the handler does with the trade getTradeForMint returned: [req, resp]
afterLookup(r, trade) ==
    IF r.kind = "quote" THEN [req |-> Answered(r), resp |-> quoteReply(trade)]
    ELSE swapAfterLookup(r, trade)

\* solanaTrade.price settles: a positive price is returned with the stored trade
PriceResolve(threw, price) ==
    /\ req.pc = "price"
    /\ microtasks = <<>>
    /\ IF ~threw /\ IsPositive(price)
       THEN LET out == afterLookup(req, [req.stored EXCEPT !.avgPrice = price])
            IN  req' = out.req /\ resp' = out.resp
       ELSE req' = [req EXCEPT !.pc = "jupiter"] /\ resp' = resp
    /\ UNCHANGED <<cacheVars, ingestVars, streamVars>>

\* the aggregator request settles: a trade is stored and returned, otherwise the
\* stored trade read at the start (if any) is returned
JupiterResolve(data) ==
    /\ req.pc = "jupiter"
    /\ microtasks = <<>>
    /\ LET jupiterTrade == fetchTradeFromJupiter(req.mint, data)
           returned == IF jupiterTrade # NoTrade THEN jupiterTrade ELSE req.stored
           out == afterLookup(req, returned)
           stored == addTradeResult(trades, accessOrder, jupiterTrade, now,
                                    maxMemoryBytes, cleanupThreshold)
       IN  /\ req' = [out.req EXCEPT !.wrote =
                         \/ @
                         \/ /\ jupiterTrade # NoTrade
                            /\ \/ stored.trades # trades
                               \/ stored.accessOrder # accessOrder]
           /\ resp' = out.resp
           /\ IF jupiterTrade # NoTrade
              THEN addTrade(jupiterTrade)
              ELSE UNCHANGED cacheVars
    /\ UNCHANGED <<ingestVars, streamVars>>

\* POST /api/swap/:mint up to its first await
SwapRequest(mint, body) ==
    /\ req.pc = "idle"
    /\ microtasks = <<>>
    /\ LET r == [IdleRequest EXCEPT !.kind = "swap", !.mint = mint, !.body = body]
           q == body.quote
       IN  IF swapRejectedEarly(mint, body)
           THEN /\ req' = Answered(r)
                /\ resp' = Response(400, NoTrade, "", {})
                /\ UNCHANGED cacheVars
           ELSE IF q.present
           THEN LET out == swapAfterLookup(r, Trade(q.mint, q.pool, q.avgPrice,
                                                    q.programId, q.slot))
                IN  /\ req' = out.req
                    /\ resp' = out.resp
                    /\ UNCHANGED cacheVars
           ELSE /\ req' = [lookupStart(r) EXCEPT !.wrote =
                               /\ mint \in DOMAIN trades
                               /\ \/ trades[mint].accessTime # now
                                  \/ touchOrder(accessOrder, mint) # accessOrder]
                /\ resp' = NoResponse
                /\ trades' = (IF mint \in DOMAIN trades
                              THEN [trades EXCEPT ![mint].accessTime = now] ELSE trades)
                /\ accessOrder' = (IF mint \in DOMAIN trades
                                   THEN touchOrder(accessOrder, mint) ELSE accessOrder)
                /\ evicted' = <<>>
                /\ got' = getTradeReturn(trades, mint)
                /\ UNCHANGED <<now, maxMemoryBytes, cleanupThreshold, puts>>
    /\ UNCHANGED <<ingestVars, streamVars>>

\* a handler whose catch block sends nothing when the builder throws
BuildResolveUncaught(threw) ==
    /\ req.pc = "build"
    /\ microtasks = <<>>
    /\ IF threw
       THEN req' = Answered(req) /\ resp' = resp
       ELSE req' = [req EXCEPT !.pc = "blockhash"] /\ resp' = resp
    /\ UNCHANGED <<cacheVars, ingestVars, streamVars>>

\* builder.buildSwapTransaction settles
BuildResolve(threw) ==
    /\ req.pc = "build"
    /\ microtasks = <<>>
    /\ IF threw
       THEN req' = Answered(req) /\ resp' = Response(500, NoTrade, "", {})
       ELSE req' = [req EXCEPT !.pc = "blockhash"] /\ resp' = resp
    /\ UNCHANGED <<cacheVars, ingestVars, streamVars>>

\* connection.getLatestBlockhash settles; the transaction is compiled, serialized
\* and encoded, any of which may throw
BlockhashResolve(threw) ==
    /\ req.pc = "blockhash"
    /\ microtasks = <<>>
    /\ req' = Answered(req)
    /\ resp' = IF threw THEN Response(500, NoTrade, "", {})
               ELSE Response(200, NoTrade, "tx", {})
    /\ UNCHANGED <<cacheVars, ingestVars, streamVars>>

----------------------------------------------------------------------------
(* TransactionStreamer, gRPC provider.  A connection attempt, the client it    *)
(* creates and the stream it opens are all named by the attempt's number; 0   *)
(* stands for '' and for null.  One action is one turn of the event loop: the *)
(* code from a callback's start to the next wait for the network or a timer.  *)

NoAttempt == [pc |-> "none", id |-> 0, caller |-> NoValue]

\* Besides the fields of the class the record keeps counts of what left the
\* streamer (errors, rejected) and stopped: the last call from outside was
\* disconnect(), and it has returned.

InitStreamer ==
    /\ streamer = [connected |-> FALSE, isReconnecting |-> FALSE, connectionId |-> 0,
                   grpcClient |-> 0, grpcStream |-> 0, pingInterval |-> FALSE,
                   handlers |-> {}, timers |-> <<>>, attempt |-> NoAttempt,
                   connSeq |-> 0, errors |-> 0, rejected |-> 0,
                   rawTransactionListeners |-> <<>>, stopped |-> FALSE]
    /\ inbound = {}
    /\ faults = 0
    /\ calls = 0
    /\ owed = FALSE

ReconnectDelay == 5000
RetryDelay == 10000

\* a removeAllListeners that leaves the listeners of the stream attached
removeAllListenersKept(handlers, stream) == handlers

\* stream.removeAllListeners(), on the set of streams that have listeners
removeAllListeners(handlers, stream) == handlers \ {stream}

\* a cleanup that marks the streamer disconnected and releases nothing
cleanupConnectionNothingReleased(s) == [s EXCEPT !.connected = FALSE]

cleanupConnection(s) ==
    [s EXCEPT !.connected = FALSE,
              !.connectionId = 0,
              !.pingInterval = FALSE,
              !.handlers = IF s.grpcStream # 0 THEN removeAllListeners(@, s.grpcStream) ELSE @,
              !.grpcStream = 0,
              !.grpcClient = 0]

\* connectToGrpc up to its wait for getVersion
connectToGrpc(s, caller) ==
    IF s.connected \/ s.isReconnecting THEN s
    ELSE LET c == cleanupConnection([s EXCEPT !.isReconnecting = TRUE])
             id == s.connSeq + 1
         IN  [c EXCEPT !.connSeq = id,
                       !.connectionId = id,
                       !.grpcClient = id,
                       !.attempt = [pc |-> "version", id |-> id, caller |-> caller]]

\* the catch block of connectToGrpc, and what the caller does with the rejection:
\* handleReconnection sets the retry timer, an outside caller is left with the error
\* a setTimeout whose callback is never queued
setTimerLost(timers, delay) == timers

\* setTimeout(() => this.handleReconnection(), delay)
setTimer(timers, delay) == Append(timers, delay)

\* a handleReconnection without its try/catch: the rejection of connect() leaves
\* the streamer as an unhandled rejection
rejectToUncaught(s, caller) == [s EXCEPT !.rejected = @ + 1]

\* the rejection of connect() at its caller: the catch block of handleReconnection
\* sets the retry timer, a caller outside the streamer receives the rejection
rejectTo(s, caller) ==
    IF caller = "reconnect" THEN [s EXCEPT !.timers = setTimer(@, RetryDelay)]
    ELSE [s EXCEPT !.rejected = @ + 1]

attemptFails(s) ==
    rejectTo([s EXCEPT !.isReconnecting = FALSE,
                       !.attempt = NoAttempt,
                       !.errors = @ + 1], s.attempt.caller)

\* a failure inside subscribeToTransactions: its catch block counts the error and
\* rethrows it to connectToGrpc
subscribeFails(s) == attemptFails([s EXCEPT !.errors = @ + 1])

\* a scheduleReconnection that marks the drop and sets no timer
scheduleReconnectionNoTimer(s) ==
    IF ~s.connected THEN s ELSE [s EXCEPT !.connected = FALSE]

scheduleReconnection(s) ==
    IF ~s.connected THEN s
    ELSE [s EXCEPT !.connected = FALSE, !.timers = setTimer(@, ReconnectDelay)]

handleReconnection(s) ==
    IF s.connected THEN s
    ELSE connectToGrpc(cleanupConnection(s), "reconnect")

\* the bookkeeping every streamer step shares: owed is cleared by the start of an
\* attempt and set by a failure that hits the running streamer
StreamerStep(next, failure) ==
    /\ streamer' = next
    /\ owed' = IF next.connSeq > streamer.connSeq THEN FALSE
               ELSE IF failure /\ streamer.connected THEN TRUE
               ELSE owed
    /\ UNCHANGED <<cacheVars, ingestVars, apiVars>>

\* connect() called from outside the streamer
Connect ==
    /\ calls < MaxCalls
    /\ calls' = calls + 1
    /\ StreamerStep(connectToGrpc([streamer EXCEPT !.stopped = FALSE], "external"), FALSE)
    /\ UNCHANGED <<inbound, faults>>

\* disconnect() called from outside the streamer
Disconnect ==
    /\ calls < MaxCalls
    /\ calls' = calls + 1
    /\ StreamerStep([cleanupConnection(streamer) EXCEPT !.stopped = TRUE], FALSE)
    /\ UNCHANGED <<inbound, faults>>

\* getVersion answers: subscribeToTransactions calls this.grpcClient.subscribe(),
\* a TypeError when the client is null
VersionResolves ==
    /\ streamer.attempt.pc = "version"
    /\ StreamerStep(IF streamer.grpcClient = 0 THEN subscribeFails(streamer)
                    ELSE [streamer EXCEPT !.attempt.pc = "subscribe"], FALSE)
    /\ UNCHANGED <<inbound, faults, calls>>

\* getVersion rejects, or the 30 second timeout wins the race
VersionFails ==
    /\ streamer.attempt.pc = "version"
    /\ faults < MaxFaults
    /\ faults' = faults + 1
    /\ StreamerStep(attemptFails(streamer), FALSE)
    /\ UNCHANGED <<inbound, calls>>

\* subscribe() answers with a stream: handlers are attached, the request is
\* written (which may throw), the ping timer is started and connected is set
SubscribeResolves ==
    /\ streamer.attempt.pc = "subscribe"
    /\ \E writeThrows \in BOOLEAN :
        /\ writeThrows => faults < MaxFaults
        /\ faults' = IF writeThrows THEN faults + 1 ELSE faults
        /\ LET id == streamer.attempt.id
               opened == [streamer EXCEPT !.grpcStream = id,
                                          !.handlers = removeAllListeners(@, id) \cup {id}]
           IN  StreamerStep(IF writeThrows THEN subscribeFails(opened)
                            ELSE [opened EXCEPT !.pingInterval = TRUE,
                                                !.connected = TRUE,
                                                !.isReconnecting = FALSE,
                                                !.attempt = NoAttempt], FALSE)
    /\ UNCHANGED <<inbound, calls>>

\* subscribe() rejects; it may do so unprompted, and does not count as a fault
\* of the network when the client it was called on has been closed meanwhile
SubscribeFails ==
    /\ streamer.attempt.pc = "subscribe"
    /\ \/ /\ streamer.grpcClient # streamer.attempt.id
          /\ faults' = faults
       \/ /\ streamer.grpcClient = streamer.attempt.id
          /\ faults < MaxFaults
          /\ faults' = faults + 1
    /\ StreamerStep(subscribeFails(streamer), FALSE)
    /\ UNCHANGED <<inbound, calls>>

\* the listener of an 'error', 'end' or 'close' event of a stream
onStreamEvent(s, event) ==
    scheduleReconnection(IF event = "error" THEN [s EXCEPT !.errors = @ + 1] ELSE s)

\* an 'error', 'end' or 'close' event on a stream that has listeners
StreamEvent ==
    /\ faults < MaxFaults
    /\ faults' = faults + 1
    /\ \E stream \in streamer.handlers, event \in {"error", "end", "close"} :
        StreamerStep(onStreamEvent(streamer, event), TRUE)
    /\ UNCHANGED <<inbound, calls>>

\* the ping timer fires and the write succeeds, or the callback returns at once
Ping ==
    /\ streamer.pingInterval
    /\ StreamerStep(streamer, FALSE)
    /\ UNCHANGED <<inbound, faults, calls>>

\* the ping timer fires and the write throws
PingFails ==
    /\ streamer.pingInterval
    /\ streamer.grpcStream # 0 /\ streamer.connected
    /\ faults < MaxFaults
    /\ faults' = faults + 1
    /\ StreamerStep(handleReconnection([streamer EXCEPT !.connected = FALSE,
                                                        !.errors = @ + 1]), TRUE)
    /\ UNCHANGED <<inbound, calls>>

RemoveAt(seq, i) == SubSeq(seq, 1, i - 1) \o SubSeq(seq, i + 1, Len(seq))

\* a reconnect timer fires
TimerFires ==
    /\ \E i \in 1..Len(streamer.timers) :
        StreamerStep(handleReconnection([streamer EXCEPT !.timers = RemoveAt(@, i)]), FALSE)
    /\ UNCHANGED <<inbound, faults, calls>>

\* The functions registered as raw-transaction listeners: the listener of index.ts
\* (async, with its own try/catch), one that throws, and one more that returns.
Listeners == {"index", "faulty", "monitor"}

Throws(listener) == listener = "faulty"

\* addRawTransactionListener: Set.add, in insertion order
addRawTransactionListener(s, listener) ==
    IF \E i \in 1..Len(s.rawTransactionListeners) : s.rawTransactionListeners[i] = listener
    THEN s
    ELSE [s EXCEPT !.rawTransactionListeners = Append(@, listener)]

\* a forEach with no try/catch in its callback: the first exception ends the loop
notifyRawTransactionListenersUnguarded(listeners) ==
    IF \E i \in 1..Len(listeners) : Throws(listeners[i])
    THEN LET first == CHOOSE i \in 1..Len(listeners) :
                          Throws(listeners[i]) /\ \A j \in 1..(i - 1) : ~Throws(listeners[j])
         IN  [called |-> SubSeq(listeners, 1, first), caught |-> 0, escaped |-> TRUE]
    ELSE [called |-> listeners, caught |-> 0, escaped |-> FALSE]

\* notifyRawTransactionListeners: the listeners it called, in order, the exceptions
\* its catch block counted in stats.errors, and whether one left the forEach
notifyRawTransactionListeners(listeners) ==
    [called |-> listeners,
     caught |-> Cardinality({i \in 1..Len(listeners) : Throws(listeners[i])}),
     escaped |-> FALSE]

\* handleGrpcMessage for the seq-th transaction message, arriving on a stream with
\* listeners: what became of it. An exception that leaves the notification is
\* caught and counted by handleGrpcMessage itself.
handleGrpcMessage(s, stream, seq) ==
    LET delivered == ~(~s.connected \/ s.connectionId = 0)
        n == notifyRawTransactionListeners(s.rawTransactionListeners)
    IN  [seq |-> seq, stream |-> stream, connectionId |-> s.connectionId,
         latest |-> s.connSeq, delivered |-> delivered,
         registered |-> s.rawTransactionListeners,
         called |-> IF delivered THEN n.called ELSE <<>>,
         errors |-> IF ~delivered THEN 0
                    ELSE n.caught + (IF n.escaped THEN 1 ELSE 0)]

Data ==
    /\ Cardinality(inbound) < MaxData
    /\ \E stream \in streamer.handlers :
        LET r == handleGrpcMessage(streamer, stream, Cardinality(inbound) + 1)
        IN  /\ inbound' = inbound \cup {r}
            /\ streamer' = [streamer EXCEPT !.errors = @ + r.errors]
    /\ UNCHANGED <<faults, calls, owed, cacheVars, ingestVars, apiVars>>

\* a component registers a listener
AddListener ==
    /\ \E listener \in Listeners :
        StreamerStep(addRawTransactionListener(streamer, listener), FALSE)
    /\ UNCHANGED <<inbound, faults, calls>>


----------------------------------------------------------------------------
(* The price index driven directly through its public methods *)

\* (maxMemoryMB * 1024 * 1024, cleanupThreshold in percent): ceilings of a few
\* entries, with the thresholds 0.85 and 0.9 of the source, one above 1 and one
\* below the cleanup target of 0.7 (CLEANUP_THRESHOLD is read from the environment).
CacheConfigs == {<<1000, 85>>, <<1500, 90>>, <<500, 85>>, <<900, 120>>, <<1500, 50>>}

CachePrices == {Num(1, 1), Num(2, 1)}

CacheTrades ==
    {Trade(m, "P1", p, PUMP_FUN_PROGRAM_ID, "1") : m \in Mints, p \in CachePrices}

ForceTargets == {70, 40}

InitCache ==
    /\ trades = EmptyMap
    /\ accessOrder = <<>>
    /\ evicted = <<>>
    /\ puts = EmptyMap
    /\ got = NoReturn
    /\ now = 0
    /\ \E c \in CacheConfigs : maxMemoryBytes = c[1] /\ cleanupThreshold = c[2]
    /\ InitIngest
    /\ InitApi
    /\ InitStreamer

CacheAdd ==
    /\ \E t \in CacheTrades : addTrade(t)
    /\ UNCHANGED <<ingestVars, apiVars, streamVars>>

CacheGet ==
    /\ \E m \in Mints : getTrade(m)
    /\ UNCHANGED <<ingestVars, apiVars, streamVars>>

CacheRemove ==
    /\ \E m \in Mints : removeTrade(m)
    /\ UNCHANGED <<ingestVars, apiVars, streamVars>>

CacheForceCleanup ==
    /\ \E p \in ForceTargets : forceCleanup(p)
    /\ UNCHANGED <<ingestVars, apiVars, streamVars>>

CacheClear ==
    /\ clearAll
    /\ UNCHANGED <<ingestVars, apiVars, streamVars>>

CacheTick ==
    /\ Tick
    /\ UNCHANGED <<ingestVars, apiVars, streamVars>>

NextCache ==
    \/ CacheAdd
    \/ CacheGet
    \/ CacheRemove
    \/ CacheForceCleanup
    \/ CacheClear
    \/ CacheTick

SpecCache == InitCache /\ [][NextCache]_vars

----------------------------------------------------------------------------
(* The index fed by the stream *)

MaxCandidates == 2

BuyHigh == ParsedTrade("BUY", SOL_MINT, "M1", 4, 2, PUMP_FUN_PROGRAM_ID, "P1", "U1", 0)
BuyLow == ParsedTrade("BUY", SOL_MINT, "M1", 2, 2, PUMP_FUN_PROGRAM_ID, "P1", "U1", 0)
SellM1 == ParsedTrade("SELL", "M1", SOL_MINT, 2, 4, PUMP_SWAP_PROGRAM_ID, "P2", "U1", 0)
BuyUnsupported == ParsedTrade("BUY", SOL_MINT, "M2", 2, 1, PHOENIX_PROGRAM_ID, "P3", "U1", 0)
BuyNoPool == ParsedTrade("BUY", SOL_MINT, "M2", 2, 1, PUMP_FUN_PROGRAM_ID, NoValue, "U2", 1)

BuyNoAmounts == ParsedTrade("BUY", SOL_MINT, "M3", 0, 0, PUMP_FUN_PROGRAM_ID, "P4", "U3", 0)

Candidates == {BuyHigh, BuyLow, SellM1, BuyUnsupported, BuyNoPool, BuyNoAmounts}

RECURSIVE SeqsUpTo(_, _)
SeqsUpTo(S, n) ==
    IF n = 0 THEN {<<>>}
    ELSE LET shorter == SeqsUpTo(S, n - 1)
         IN  shorter \cup {Append(q, x) : q \in shorter, x \in S}

CandidateLists == SeqsUpTo(Candidates, MaxCandidates)

MemeEventLists == {<<>>, <<MemeEvent(1, "U2", "M2", SOL_MINT, "BC1")>>}

IngestConfigs == {<<1000, 85>>}

InitIndex ==
    /\ trades = EmptyMap
    /\ accessOrder = <<>>
    /\ evicted = <<>>
    /\ puts = EmptyMap
    /\ got = NoReturn
    /\ now = 0
    /\ \E c \in IngestConfigs : maxMemoryBytes = c[1] /\ cleanupThreshold = c[2]
    /\ InitIngest
    /\ InitApi
    /\ InitStreamer

StreamData ==
    \E c \in CandidateLists, e \in MemeEventLists : Deliver(c, e, 0, 0, FALSE)

\* a record on which the parser throws, whatever trades it carries
StreamUnparsable ==
    \E c \in CandidateLists, e \in MemeEventLists : Deliver(c, e, 0, 0, TRUE)

IndexTick ==
    /\ microtasks = <<>>
    /\ Tick
    /\ UNCHANGED <<ingestVars, apiVars, streamVars>>

JupiterResponses ==
    {JupiterResponse(FALSE, Absent, Absent, Absent, NoValue, NoValue),
     JupiterResponse(TRUE, 1000000, 2, 1, "Pump.fun", "PJ"),
     JupiterResponse(TRUE, 1000000, 2, 2, "Pump.fun", "PJ"),
     JupiterResponse(TRUE, 1000000, 2, 1, "Phoenix", "PJ"),
     JupiterResponse(TRUE, 1000000, 2, 1, "Unlisted", "PJ"),
     JupiterResponse(TRUE, 1000000, 2, 0, NoValue, NoValue)}

RealTimePrices == {Zero, Num(3, 1)}

GetQuote == \E m \in {"M1", "M2"} : QuoteRequest(m)

PriceArrives == \E p \in RealTimePrices : PriceResolve(FALSE, p)

PriceFails == PriceResolve(TRUE, Zero)

JupiterAnswers == \E d \in JupiterResponses : JupiterResolve(d)

\* the records of the stream that feed the index next to the HTTP requests
SeedLists == {<<BuyHigh>>, <<BuyUnsupported, BuyLow>>}

SeedData == \E c \in SeedLists : Deliver(c, <<>>, 0, 0, FALSE)

NextIngest ==
    \/ StreamData
    \/ StreamUnparsable
    \/ RunMicrotask
    \/ IndexTick

\* the listener alone: records arrive and their continuations run
SpecIngest == InitIndex /\ [][NextIngest]_vars

NextIndex ==
    \/ SeedData
    \/ RunMicrotask
    \/ IndexTick
    \/ GetQuote
    \/ PriceArrives
    \/ PriceFails
    \/ JupiterAnswers

\* the index written by the listener and by the fallback of GET /api/quote
SpecIndex == InitIndex /\ [][NextIndex]_vars

----------------------------------------------------------------------------
(* POST /api/swap next to a stream that fills the index *)

AmountsIn == {JsUndefined, JsNumber(0), JsString(0), JsNumber(-1), JsNumber(5)}

AmountsOut == {JsUndefined, JsNumber(7)}

Slippages ==
    {JsUndefined, JsNumber(0), JsNumber(999), JsNumber(1000), JsNumber(10000),
     JsNumber(10001), JsText}

GoodQuote == QuoteOverride(TRUE, "M1", "P1", Num(2, 1), PUMP_FUN_PROGRAM_ID, "5")

BadQuotes ==
    {QuoteOverride(TRUE, "M2", "P1", Num(2, 1), PUMP_FUN_PROGRAM_ID, "5"),
     QuoteOverride(TRUE, "M1", NoValue, Num(2, 1), PUMP_FUN_PROGRAM_ID, "5"),
     QuoteOverride(TRUE, "M1", "P1", Num(2, 1), PHOENIX_PROGRAM_ID, "5"),
     QuoteOverride(TRUE, "M1", "P1", Zero, PUMP_FUN_PROGRAM_ID, "5"),
     QuoteOverride(TRUE, "M1", "P1", Num(2, 1), "constructor", "5")}

\* a well-formed body, and the bodies that differ from it in the signer, the
\* encoding, the type or the quote override
GoodBody == SwapBody(32, NoValue, "buy", JsNumber(5), JsUndefined, JsNumber(1000), NoQuote)

SwapBodies ==
    {SwapBody(32, NoValue, "buy", i, o, l, q) :
        i \in AmountsIn, o \in AmountsOut, l \in Slippages, q \in {NoQuote, GoodQuote}}
    \cup {[GoodBody EXCEPT !.quote = q] : q \in BadQuotes}
    \cup {[GoodBody EXCEPT !.signerLength = n] : n \in {Absent, 31}}
    \cup {[GoodBody EXCEPT !.encoding = "hex"], [GoodBody EXCEPT !.encoding = "base58"],
          [GoodBody EXCEPT !.type = "swap"], [GoodBody EXCEPT !.type = "sell"]}

PostSwap == \E body \in SwapBodies : SwapRequest("M1", body)

BuildReturns == BuildResolve(FALSE)

BuildThrows == BuildResolve(TRUE)

BlockhashReturns == BlockhashResolve(FALSE)

BlockhashThrows == BlockhashResolve(TRUE)

ApiSeed == Deliver(<<BuyHigh>>, <<>>, 0, 0, FALSE)

NextApi ==
    \/ ApiSeed
    \/ RunMicrotask
    \/ PostSwap
    \/ PriceArrives
    \/ PriceFails
    \/ JupiterAnswers
    \/ BuildReturns
    \/ BuildThrows
    \/ BlockhashReturns
    \/ BlockhashThrows

SpecApi == InitIndex /\ [][NextApi]_vars

\* queued continuations run and the promises the handler awaits do settle
SpecApiLive ==
    /\ SpecApi
    /\ WF_vars(RunMicrotask)
    /\ WF_vars(BuildReturns \/ BuildThrows)
    /\ WF_vars(BlockhashReturns \/ BlockhashThrows)

----------------------------------------------------------------------------
(* The transaction streamer against a network that fails MaxFaults times *)

NextStreamer ==
    \/ Connect
    \/ Disconnect
    \/ VersionResolves
    \/ VersionFails
    \/ SubscribeResolves
    \/ SubscribeFails
    \/ StreamEvent
    \/ Ping
    \/ PingFails
    \/ TimerFires
    \/ Data

SpecStreamer == InitIndex /\ [][NextStreamer]_vars

\* listeners are registered before the streamer is told to connect, as in index.ts
RegisterAtStartup == streamer.connSeq = 0 /\ AddListener

\* The streamer with several listeners, one of which throws, on connections that
\* are made, dropped by stream events and made again
NextListeners ==
    \/ Connect
    \/ Disconnect
    \/ VersionResolves
    \/ SubscribeResolves
    \/ StreamEvent
    \/ TimerFires
    \/ Data
    \/ RegisterAtStartup

SpecListeners == InitIndex /\ [][NextListeners]_vars

\* timers that were set do fire
SpecStreamerLive == SpecStreamer /\ WF_vars(TimerFires)

\* The reconnect timers fire, and the wait for getVersion ends: it is raced against
\* a 30 second timer. Nothing in the streamer bounds the wait for subscribe().
SpecStreamerTimed ==
    /\ SpecStreamer
    /\ WF_vars(TimerFires)
    /\ WF_vars(VersionResolves \/ VersionFails)

\* connect() is called once, at startup, as in index.ts
ConnectAtStartup == streamer.connSeq = 0 /\ Connect

NextReconnect ==
    \/ ConnectAtStartup
    \/ VersionResolves
    \/ VersionFails
    \/ SubscribeResolves
    \/ SubscribeFails
    \/ StreamEvent
    \/ Ping
    \/ PingFails
    \/ TimerFires
    \/ Data

\* The streamer that is connected once and never told to disconnect, on a network
\* that stops failing after MaxFaults failures: from then on the timers fire and
\* getVersion and subscribe() answer.
SpecReconnect ==
    /\ InitIndex
    /\ [][NextReconnect]_vars
    /\ WF_vars(TimerFires)
    /\ WF_vars(VersionResolves)
    /\ WF_vars(SubscribeResolves)

----------------------------------------------------------------------------
(* Properties *)

\* C1: ingestion writes reach the index in delivery order: once every listener
\* continuation has run, the entry of a mint is the observation of the last
\* delivered record that had a valid trade for it.
C1_IngestionOrderPreserved ==
    microtasks = <<>> =>
        \A m \in DOMAIN trades :
            lastValid[m] # 0 => trades[m].slot = ToString(lastValid[m])

\* C2: every observation in the index has a positive avgPrice, a non-empty pool
\* and a supported programId, whether the listener or the fallback wrote it.
C2_StoredObservationsValid ==
    \A m \in DOMAIN trades :
        /\ IsPositive(trades[m].avgPrice)
        /\ Truthy(trades[m].pool)
        /\ trades[m].programId \in getSupportedProgramIds

\* C3: after every operation on the index its estimated footprint is at most
\* the configured ceiling.
C3_FootprintWithinCeiling ==
    getCurrentMemoryUsage(trades, accessOrder) <= maxMemoryBytes

\* C4: eviction follows least-recently-used order: a cleanup removes keys in
\* the order of their last use, and no key that stays was used before a key
\* that went.
C4_EvictionFollowsLru ==
    \A i \in 1..Len(evicted) :
        /\ \A j \in 1..(i - 1) : evicted[j].accessTime <= evicted[i].accessTime
        /\ \A m \in DOMAIN trades : evicted[i].accessTime <= trades[m].accessTime

\* a cleanup evicted a key that was inserted after a key that stays: the key
\* that stays was promoted by a getTrade
C4_Witness ==
    \E i \in 1..Len(evicted) :
        \E m \in DOMAIN trades :
            /\ trades[m].timestamp < evicted[i].timestamp
            /\ trades[m].accessTime > trades[m].timestamp

\* the state a connection attempt in progress works on
attemptState(s) == <<s.isReconnecting, s.connectionId, s.grpcClient, s.grpcStream, s.attempt>>

\* the steps that ask for a reconnect
ReconnectRequest == Connect \/ StreamEvent \/ Ping \/ PingFails \/ TimerFires

\* C5: a stream error, end or close, or a failed ping, that hits the connected
\* streamer leaves it not connected, and a new connection attempt starts later.
C5_FailureLeadsToAttempt ==
    /\ [][(streamer.connected /\ (StreamEvent \/ PingFails)) => ~streamer'.connected]_vars
    /\ (owed ~> ~owed)

\* a reconnect attempt in flight that started after a failure of a connection
C5_Witness ==
    /\ streamer.attempt.pc = "version"
    /\ streamer.attempt.caller = "reconnect"
    /\ streamer.connSeq >= 2
    /\ faults >= 1
    /\ ~owed

\* C6: while a connection attempt is in progress, a reconnect request (a stream
\* event, a ping, a reconnect timer, a connect() call) changes nothing of the
\* attempt's state.
C6_RequestsIdempotent ==
    [][(streamer.isReconnecting /\ ReconnectRequest)
          => attemptState(streamer') = attemptState(streamer)]_vars

\* C7: a record is delivered only on the stream of the most recent connection
\* attempt, and carries that attempt's connectionId.
C7_OnlyCurrentConnectionDelivered ==
    \A r \in inbound :
        r.delivered => r.stream = r.connectionId /\ r.connectionId = r.latest

\* a record was delivered on a second connection, and a record that arrived on
\* a stream after its reconnect had begun was dropped
C7_Witness ==
    /\ \E r \in inbound : r.delivered /\ r.connectionId >= 2
    /\ \E r \in inbound : ~r.delivered /\ r.stream >= 1

\* a response the claim admits: one hop, its label in the table, the mapped
\* program with a builder
Admissible(data) ==
    /\ data.ok
    /\ data.inAmount # Absent /\ data.outAmount # Absent
    /\ data.hops = 1
    /\ data.label \in DOMAIN labelToProgramId
    /\ hasBuilder(labelToProgramId[data.label])

\* C8: an aggregator response that is not a single hop through a program with a
\* builder is discarded: the index stays as it is and the caller gets no trade
\* made from it.
C8_OnlyAdmissibleQuotesAdmitted ==
    [][\A data \in JupiterResponses :
          (JupiterResolve(data) /\ ~Admissible(data))
              => trades' = trades /\ resp'.trade.slot # "ctx"]_vars

\* the swap handler is past its validation: the builder has been called
PassedValidation == req.kind = "swap" /\ req.pc \in {"build", "blockhash"}

\* C9: the builder is only called with a slippageBps from 1000 to 10000.
C9_SlippageWithinRange ==
    PassedValidation =>
        req.slippageBps >= MinSlippageBps /\ req.slippageBps <= MaxSlippageBps

Supplied(x) == x # JsUndefined

PositiveNumber(x) == ~IsNaN(x) /\ parseNumber(x) > 0

\* C10: a swap request passes validation only with exactly one of amountIn and
\* amountOut, and that one positive.
C10_ExactlyOnePositiveAmount ==
    PassedValidation =>
        \/ /\ Supplied(req.body.amountIn) /\ ~Supplied(req.body.amountOut)
           /\ PositiveNumber(req.body.amountIn)
        \/ /\ Supplied(req.body.amountOut) /\ ~Supplied(req.body.amountIn)
           /\ PositiveNumber(req.body.amountOut)

\* a quote override with every field the handler asks for
QuoteComplete(q) ==
    /\ q.mint # NoValue /\ q.pool # NoValue /\ q.avgPrice # Zero
    /\ q.programId # NoValue /\ q.slot # NoValue

QuoteAsTrade(q) == Trade(q.mint, q.pool, q.avgPrice, q.programId, q.slot)

\* the swap request in req has been answered
SwapAnswered == req.kind = "swap" /\ req.pc = "idle" /\ resp.status # 0

\* C11: a quote override is used only if it is complete and for the path mint,
\* is answered 400 otherwise, and keeps the handler away from the index and the
\* fallback; without an override the trade is looked up for the path mint, and
\* a lookup that finds nothing is answered 404 without a call of the builder.
C11_QuoteOverrideOrLookup ==
    /\ [](req.kind = "swap" /\ req.body.quote.present =>
            /\ req.pc \notin {"price", "jupiter"}
            /\ PassedValidation =>
                  /\ QuoteComplete(req.body.quote)
                  /\ req.body.quote.mint = req.mint
                  /\ req.trade = QuoteAsTrade(req.body.quote)
            /\ (SwapAnswered /\ ~(QuoteComplete(req.body.quote)
                                  /\ req.body.quote.mint = req.mint))
                  => resp.status = 400)
    /\ [](req.kind = "swap" /\ ~req.body.quote.present /\ PassedValidation =>
            req.trade.mint = req.mint)
    /\ [][(req.pc = "idle" /\ req' # req /\ req'.kind = "swap" /\ req'.body.quote.present)
            => UNCHANGED cacheVars]_vars
    /\ [][(req'.kind = "swap" /\ req.pc # "idle" /\ req'.pc = "idle" /\ resp'.status = 404)
            => req.pc \in {"price", "jupiter"}]_vars
    /\ [][\A data \in JupiterResponses :
            (/\ req.kind = "swap"
             /\ JupiterResolve(data)
             /\ fetchTradeFromJupiter(req.mint, data) = NoTrade
             /\ req.stored = NoTrade) => resp'.status = 404 /\ req'.pc = "idle"]_vars

\* the builder was called with the override while the index holds another
\* observation for the mint
C11_Witness ==
    /\ PassedValidation
    /\ req.body.quote.present
    /\ req.mint \in DOMAIN trades
    /\ TradeOf(trades[req.mint]) # req.trade

\* C12: a swap whose observation names a program without a registered builder
\* is answered 400 with a non-empty supportedProtocols list, and no transaction
\* is built for it.
C12_UnsupportedProgramRejected ==
    (req.kind = "swap" /\ req.trade # NoTrade
        /\ req.trade.programId \notin getSupportedProgramIds) =>
            /\ req.pc = "idle"
            /\ resp.status = 400
            /\ resp.supportedProtocols # {}
            /\ resp.tx = ""

\* C13: a swap request that passed validation gets one response, a 200 with a
\* serialized transaction or a 400, 404 or 500; a throw of the builder, of the
\* block-hash fetch or of the serialization gives 500.
C13_OneResponsePerSwap ==
    /\ [](SwapAnswered =>
            /\ resp.status \in {200, 400, 404, 500}
            /\ resp.status = 200 <=> resp.tx # "")
    /\ [](req.kind = "swap" /\ req.pc # "idle" => resp = NoResponse)
    /\ [][(PassedValidation /\ (BuildThrows \/ BlockhashThrows))
            => req'.pc = "idle" /\ resp'.status = 500]_vars
    /\ [][(PassedValidation /\ req' # req)
            => \/ req'.pc = "blockhash" /\ resp' = NoResponse
               \/ req'.pc = "idle" /\ resp'.status \in {200, 500}]_vars
    /\ (PassedValidation ~> SwapAnswered)

\* a request that passed validation was answered 500 after a throw
C13_Witness ==
    /\ SwapAnswered
    /\ req.trade # NoTrade
    /\ hasBuilder(req.trade.programId)
    /\ resp.status = 500

\* C14 as stated: a getTrade(k) returns nothing if and only if addTrade was never
\* called with mint k or k's entry was evicted by a cleanup since it was last put,
\* and a value it returns is the trade of the latest put for k.
C14_GetNothingIffNeverPutOrEvicted ==
    got.mint # NoValue =>
        /\ got.value = <<>> <=>
               (got.mint \notin DOMAIN puts \/ puts[got.mint].fate = "evicted")
        /\ got.value # <<>> => got.value = <<puts[got.mint].trade>>

\* C14 with every way an entry leaves the map: a getTrade(k) returns nothing if and
\* only if addTrade was never called with mint k or k's entry was evicted by a
\* cleanup, removed by removeTrade or cleared by clearAll since it was last put;
\* a value it returns is the trade of the latest put for k.
C14_GetNothingIffNeverPutOrGone ==
    got.mint # NoValue =>
        /\ got.value = <<>> <=>
               (got.mint \notin DOMAIN puts \/ puts[got.mint].fate \in {"evicted", "removed"})
        /\ got.value # <<>> => got.value = <<puts[got.mint].trade>>

\* a getTrade returned nothing for a mint whose entry a cleanup evicted, and
\* another returned the second trade put for its mint
C14_Witness ==
    /\ got.mint # NoValue
    /\ got.value = <<>>
    /\ got.mint \in DOMAIN puts
    /\ puts[got.mint].fate = "evicted"
    /\ \E k \in DOMAIN puts : puts[k].fate = "stored"

\* the map and the access order of addTrade(trade) between its insertion and its
\* call of shouldCleanup
Inserted(trade) ==
    [trades |-> MapSet(trades, trade.mint, StoredTrade(trade, now, now)),
     accessOrder |-> Append(IF trade.mint \in DOMAIN trades
                            THEN removeFromAccessOrder(accessOrder, trade.mint)
                            ELSE accessOrder, trade.mint)]

\* the footprint estimate of a cache of n entries
FootprintOf(n) ==
    n * (estimatedBytesPerTrade + mapOverheadPerEntry + accessOrderOverheadPerEntry)

\* C15: after an insertion, entries are evicted only if the footprint exceeds
\* ceiling * cleanupThreshold, and then the cleanup runs; it removes entries from the
\* least-recently-used end until the footprint is at most 70% of the ceiling and
\* no entry beyond that point, so that afterwards the least-recently-used mint is
\* absent and the cache holds as many entries as fit in 70% of the ceiling.
C15_EvictionAfterInsertion ==
    [][\A t \in CacheTrades :
         addTrade(t) =>
           LET mid     == Inserted(t)
               exceeds == shouldCleanup(mid.trades, mid.accessOrder,
                                        maxMemoryBytes, cleanupThreshold)
               n       == Len(evicted')
           IN  /\ (n > 0) => exceeds
               /\ \A i \in 1..n : evicted'[i].mint = mid.accessOrder[i]
               /\ accessOrder' = SubSeq(mid.accessOrder, n + 1, Len(mid.accessOrder))
               /\ DOMAIN trades' = DOMAIN mid.trades \ MintsOf(evicted')
               /\ exceeds =>
                    /\ Head(mid.accessOrder) \notin DOMAIN trades'
                    /\ ~ExceedsPercent(getCurrentMemoryUsage(trades', accessOrder'),
                                       maxMemoryBytes, cleanupTargetPercent)
                    /\ ExceedsPercent(FootprintOf(Cardinality(DOMAIN trades') + 1),
                                      maxMemoryBytes, cleanupTargetPercent)
      ]_vars

\* a step in which a connection attempt made by handleReconnection starts
ReconnectAttemptStarts ==
    /\ streamer'.connSeq > streamer.connSeq
    /\ streamer'.attempt.caller = "reconnect"

\* a step in which the running connection is reported as dropped
ConnectionDrops ==
    /\ streamer.connected
    /\ ~streamer'.connected
    /\ StreamEvent \/ PingFails

\* a step in which a connection attempt made by handleReconnection fails
ReconnectAttemptFails ==
    /\ streamer.attempt.caller = "reconnect"
    /\ streamer'.attempt = NoAttempt
    /\ ~streamer'.connected

\* C16: a connection drop sets exactly one reconnect timer, of 5 s, and starts no
\* attempt itself; a failed reconnect attempt sets exactly one further timer, of
\* 10 s; and a reconnect attempt starts only when one of these timers fires,
\* whichever event (stream error, close, end or ping failure) reported the drop.
C16_ReconnectOnlyAfterDelay ==
    /\ [][ConnectionDrops =>
            /\ streamer'.timers = Append(streamer.timers, ReconnectDelay)
            /\ streamer'.connSeq = streamer.connSeq]_vars
    /\ [][ReconnectAttemptFails =>
            streamer'.timers = Append(streamer.timers, RetryDelay)]_vars
    /\ [][ReconnectAttemptStarts =>
            \E i \in 1..Len(streamer.timers) :
                /\ streamer.timers[i] \in {ReconnectDelay, RetryDelay}
                /\ streamer'.timers = RemoveAt(streamer.timers, i)]_vars

\* C17: every connection attempt terminates: an attempt in progress (the
\* isReconnecting flag set by connectToGrpc) ends, connected or failed, with the
\* flag cleared, so that it does not block later attempts for ever.
C17_AttemptTerminates ==
    streamer.isReconnecting ~> ~streamer.isReconnecting

\* C18: a rejection reaches code outside the streamer only as the rejection of a
\* connect() call made from outside, for the attempt that call started; a stream
\* error, a ping failure and a failed reconnect attempt raise nothing to any
\* caller: each is counted in stats.errors and handled by the reconnect loop (the
\* 5 s timer, an attempt at once, the 10 s retry timer).
C18_FailuresStayInside ==
    /\ [][streamer'.rejected # streamer.rejected =>
            /\ streamer.attempt.caller = "external"
            /\ streamer'.attempt = NoAttempt
            /\ streamer'.rejected = streamer.rejected + 1]_vars
    /\ [][StreamEvent =>
            /\ streamer'.rejected = streamer.rejected
            /\ streamer'.errors \in {streamer.errors, streamer.errors + 1}
            /\ streamer' = onStreamEvent(streamer, "error") =>
                   streamer'.errors = streamer.errors + 1
            /\ streamer.connected =>
                   streamer'.timers = Append(streamer.timers, ReconnectDelay)]_vars
    /\ [][PingFails =>
            /\ streamer'.rejected = streamer.rejected
            /\ streamer'.errors = streamer.errors + 1
            /\ streamer'.connSeq = streamer.connSeq + 1 \/ streamer.isReconnecting]_vars
    /\ [][ReconnectAttemptFails =>
            /\ streamer'.rejected = streamer.rejected
            /\ streamer'.errors > streamer.errors
            /\ streamer'.timers = Append(streamer.timers, RetryDelay)]_vars

\* a stream error, then a reconnect attempt that failed: both counted, the retry
\* timer set, and nothing raised to a caller
C18_Witness ==
    /\ streamer.rejected = 0
    /\ streamer.errors >= 2
    /\ \E i \in 1..Len(streamer.timers) : streamer.timers[i] = RetryDelay
    /\ streamer.attempt = NoAttempt

\* C19: when a registered listener throws while handling a record, every other
\* registered listener still receives that record, and every later record reaches
\* all the listeners registered then; the exception is counted and goes no further.
C19_ThrowingListenerIsolated ==
    \A r \in inbound :
        r.delivered =>
            /\ r.called = r.registered
            /\ r.errors = Cardinality({i \in 1..Len(r.registered) : Throws(r.registered[i])})

\* the throwing listener was called before another listener, for two records in a
\* row, and the other listener received both
C19_Witness ==
    \E r1, r2 \in inbound :
        /\ r1.seq < r2.seq
        /\ r1.delivered /\ r2.delivered
        /\ \A r \in {r1, r2} :
            \E i, j \in 1..Len(r.called) :
                i < j /\ Throws(r.called[i]) /\ ~Throws(r.called[j])

\* nothing of an earlier connection is in place: no stream with listeners, no
\* keepalive timer
NothingInPlace(s) == s.handlers = {} /\ ~s.pingInterval /\ s.grpcStream = 0

OrderWithout(order, mint) == SelectSeq(order, LAMBDA m : m # mint)

\* C21: getTrade(mint) on a present key returns the stored observation and makes
\* the key the most recently used; no entry is added or removed, the other keys
\* keep their relative order, and no stored field but the access timestamp
\* changes. On an absent key it returns nothing and changes nothing.
C21_GetTradeFrame ==
    [][\A mint \in Mints :
         getTrade(mint) =>
           IF mint \in DOMAIN trades
           THEN /\ got'.value = <<TradeOf(trades[mint])>>
                /\ accessOrder'[Len(accessOrder')] = mint
                /\ OrderWithout(accessOrder', mint) = OrderWithout(accessOrder, mint)
                /\ Len(accessOrder') = Len(accessOrder)
                /\ DOMAIN trades' = DOMAIN trades
                /\ \A k \in DOMAIN trades \ {mint} : trades'[k] = trades[k]
                /\ [trades'[mint] EXCEPT !.accessTime = 0]
                       = [trades[mint] EXCEPT !.accessTime = 0]
                /\ trades'[mint].accessTime = now
           ELSE /\ got'.value = <<>>
                /\ trades' = trades
                /\ accessOrder' = accessOrder
      ]_vars

\* a getTrade has just promoted a key that was not the most recently used, some
\* time after it was stored
C21_Witness ==
    /\ got.mint \in DOMAIN trades
    /\ Len(accessOrder) >= 2
    /\ accessOrder[Len(accessOrder)] = got.mint
    /\ trades[got.mint].accessTime > trades[got.mint].timestamp
    /\ \E k \in DOMAIN trades : trades[k].timestamp > trades[got.mint].timestamp

\* C22: no observation keyed by the WSOL mint is produced by the validator or
\* stored in the index, for BUY and SELL candidates alike: neither a pending
\* listener continuation carries one, nor does the map hold one.
C22_NoWsolObservation ==
    /\ SOL_MINT \notin DOMAIN trades
    /\ \A i \in 1..Len(microtasks) :
        \A j \in 1..Len(microtasks[i].validTrades) :
            microtasks[i].validTrades[j].mint # SOL_MINT

\* the conditions of the claim on the trade built from a candidate
MeetsConditions(trade) ==
    /\ Truthy(trade.mint) /\ trade.mint # "unknown"
    /\ Truthy(trade.pool) /\ trade.pool # "unknown"
    /\ IsPositive(trade.avgPrice)
    /\ Truthy(trade.slot)
    /\ Truthy(trade.programId) /\ trade.programId # "unknown"
    /\ trade.programId \in getSupportedProgramIds

\* what processTransaction makes of the candidates of one record that pass its
\* SOL-SOL filter: those that meet the conditions are its valid trades, the
\* others its invalid trades, each with a reason
ValidatorDecides(rawTransaction) ==
    LET notSolSol(t) == ~(t.inputMint = SOL_MINT /\ t.outputMint = SOL_MINT)
        withAmounts(t) == t.inputAmountRaw > 0 /\ t.outputAmountRaw > 0
        decided(filteredTrades, built, meeting, result) ==
            /\ Len(result.validTrades) = Cardinality(meeting)
            /\ Len(result.invalidTrades) = Len(filteredTrades) - Cardinality(meeting)
            /\ \A i \in meeting :
                \E j \in 1..Len(result.validTrades) : result.validTrades[j] = built[i]
            /\ \A i \in (1..Len(filteredTrades)) \ meeting :
                \E j \in 1..Len(result.invalidTrades) :
                    /\ result.invalidTrades[j].trade = filteredTrades[i]
                    /\ Truthy(result.invalidTrades[j].reason)
            /\ \A j \in 1..Len(result.validTrades) :
                MeetsConditions(result.validTrades[j])
        judged(filteredTrades, built) ==
            decided(filteredTrades, built,
                    {i \in 1..Len(filteredTrades) : MeetsConditions(built[i])},
                    processTransaction(rawTransaction))
        candidates(filteredTrades, tradesWithAmounts) ==
            judged(filteredTrades,
                   [i \in 1..Len(filteredTrades) |->
                       processedTradeOf(filteredTrades[i], filteredTrades, tradesWithAmounts,
                                        rawTransaction.memeEvents, rawTransaction)])
        kept(filteredTrades) ==
            candidates(filteredTrades, SelectSeq(filteredTrades, withAmounts))
    IN  kept(SelectSeq(rawTransaction.trades, notSolSol))

\* C23: the validator emits an observation for a candidate if and only if mint and
\* pool are present and not 'unknown', avgPrice > 0, slot is present and programId
\* is present, not 'unknown' and one of getSupportedProgramIds(); every other
\* candidate comes back as an invalid trade with a reason, and the listener stores
\* nothing but the valid trades.
C23_ValidatorEmitsIffConditions ==
    /\ [][\A c \in CandidateLists, e \in MemeEventLists :
            Deliver(c, e, 0, 0, FALSE) =>
                /\ ValidatorDecides(RawTransaction(nextSlot, c, e, 0, 0, FALSE))
                /\ microtasks'[Len(microtasks')].validTrades =
                       processTransaction(RawTransaction(nextSlot, c, e, 0, 0, FALSE)).validTrades
         ]_vars
    /\ [][RunMicrotask =>
            \A m \in DOMAIN trades' :
                (m \notin DOMAIN trades \/ trades'[m] # trades[m]) =>
                    \E j \in 1..Len(Head(microtasks).validTrades) :
                        Head(microtasks).validTrades[j].mint = m]_vars

\* the listener holds the result of a record with two candidates: one became an
\* observation, the other, traded on a program outside the whitelist, came back
\* with a reason
C23_Witness ==
    /\ microtasks # <<>>
    /\ Len(Head(microtasks).validTrades) = 1
    /\ Len(Head(microtasks).invalidTrades) = 1
    /\ Head(microtasks).invalidTrades[1].trade = BuyUnsupported
    /\ Head(microtasks).invalidTrades[1].reason = "ProgramId not whitelisted"

\* C24: when the parser throws on a record, processTransaction returns the empty
\* result (no valid trades, no invalid trades, totalTrades = 0) and the listener
\* writes nothing into the index for that record.
C24_ParserThrowIsEmptyResult ==
    /\ [][\A c \in CandidateLists, e \in MemeEventLists :
            Deliver(c, e, 0, 0, TRUE) =>
                LET result == processTransaction(RawTransaction(nextSlot, c, e, 0, 0, TRUE))
                    task == microtasks'[Len(microtasks')]
                IN  /\ result.validTrades = <<>>
                    /\ result.invalidTrades = <<>>
                    /\ result.totalTrades = 0
                    /\ task.slot = nextSlot
                    /\ task.validTrades = <<>>
                    /\ task.invalidTrades = <<>>
                    /\ task.awaits = 0
                    /\ UNCHANGED cacheVars
         ]_vars
    /\ [][(RunMicrotask /\ Head(microtasks).threw) =>
            UNCHANGED <<trades, accessOrder, evicted, puts>>]_vars

\* the listener holds the empty result of a record on which the parser threw,
\* after an earlier record was stored
C24_Witness ==
    /\ microtasks # <<>>
    /\ Head(microtasks).threw
    /\ Head(microtasks).slot = 2
    /\ Head(microtasks).validTrades = <<>>
    /\ "M1" \in DOMAIN trades

\* the keys of the access-order list
KeysOf(order) == {order[i] : i \in 1..Len(order)}

\* C25: after every cache operation the access-order list holds exactly the keys of
\* the map, each exactly once; hence an addTrade for a key that is already stored
\* leaves the number of entries and the estimated footprint as they were.
C25_AccessOrderIsKeysOnce ==
    /\ [](/\ KeysOf(accessOrder) = DOMAIN trades
          /\ Len(accessOrder) = Cardinality(DOMAIN trades))
    /\ [][\A t \in CacheTrades :
            (addTrade(t) /\ t.mint \in DOMAIN trades) =>
                /\ Cardinality(DOMAIN trades') = Cardinality(DOMAIN trades)
                /\ Len(accessOrder') = Len(accessOrder)
                /\ getCurrentMemoryUsage(trades', accessOrder')
                       = getCurrentMemoryUsage(trades, accessOrder)
         ]_vars

\* an addTrade has just run its cleanup: entries were shifted out, the entry just
\* written is the last of the list, and the list still matches the map
C25_Witness ==
    /\ evicted # <<>>
    /\ Len(accessOrder) >= 2
    /\ trades[accessOrder[Len(accessOrder)]].timestamp = now
    /\ now > 0
    /\ \E m \in DOMAIN puts : puts[m].fate = "evicted"

\* the cleanup target of 70% of the ceiling holds at least one entry
TargetHoldsOneEntry ==
    ~ExceedsPercent(FootprintOf(1), maxMemoryBytes, cleanupTargetPercent)

\* C29 as stated: right after addTrade(t), getTrade(t.mint) yields t, for every
\* ceiling and cleanup threshold.
C29_PutThenGetYieldsPut ==
    [][\A t \in CacheTrades :
         addTrade(t) => getTradeReturn(trades', t.mint).value = <<t>>]_vars

\* C29, amended: right after addTrade(t), getTrade(t.mint) yields t whenever 70% of
\* the ceiling holds at least one entry, for every cleanup threshold.
C29_PutThenGetYieldsPutWhenOneFits ==
    [][\A t \in CacheTrades :
         (addTrade(t) /\ TargetHoldsOneEntry) =>
             /\ getTradeReturn(trades', t.mint).value = <<t>>
             /\ accessOrder'[Len(accessOrder')] = t.mint]_vars

\* an addTrade has evicted every other entry and kept the one it wrote
C29_Witness ==
    /\ TargetHoldsOneEntry
    /\ Len(evicted) >= 2
    /\ Len(accessOrder) = 1
    /\ accessOrder[1] \in DOMAIN puts
    /\ puts[accessOrder[1]].fate = "stored"
    /\ puts[accessOrder[1]].trade = TradeOf(trades[accessOrder[1]])
    /\ accessOrder[1] \notin MintsOf(evicted)

\* C26: in every reachable state connected = true implies that connectionId is
\* non-empty and that the current stream has its handlers attached, so that a
\* streamer that reports connected does not drop its inbound records as stale.
C26_ConnectedHasIdAndHandlers ==
    streamer.connected =>
        /\ streamer.connectionId # 0
        /\ streamer.grpcStream # 0
        /\ streamer.grpcStream \in streamer.handlers

\* the records handed to the listeners so far
DeliveredRecords == {r \in inbound : r.delivered}

\* C27: once disconnect() has returned and connect() is not called again, the
\* streamer stays disconnected: connected is false, no keepalive timer is active,
\* no connection attempt starts and no record is delivered to the listeners, even
\* if a reconnect timer was pending or an attempt was in flight at the call.
C27_StaysDisconnected ==
    /\ [](streamer.stopped => (~streamer.connected /\ ~streamer.pingInterval))
    /\ [][(streamer.stopped /\ streamer'.stopped) =>
            /\ streamer'.connSeq = streamer.connSeq
            /\ DeliveredRecords' = DeliveredRecords]_vars

\* RUNNING with a live stream: connected, under a connection id, on a stream that
\* has its handlers attached
Running ==
    /\ streamer.connected
    /\ streamer.connectionId # 0
    /\ streamer.grpcStream # 0
    /\ streamer.grpcStream \in streamer.handlers

C30_Rejected400LeavesIndex ==
    (req.kind = "swap" /\ req.pc = "idle" /\ resp.status = 400) => ~req.wrote


====
